---- MODULE Spec2Model ----
(***************************************************************************)
(* Model of the multi-feed news digest pipeline (multi_feed_parser.py):    *)
(* SmartCache, fetch_feed_articles, summarize_articles_batch,              *)
(* parse_batch_summaries, summarize_articles_individually and main.        *)
(*                                                                         *)
(* Encoding of Python values.  A str is a sequence of one-character        *)
(* strings; a longer TLA+ string inside such a sequence stands for an      *)
(* opaque run of non-blank, non-digit characters.  None is the one-element *)
(* sequence <<"<None>">>, which no str of the model contains.  A dict is a *)
(* sequence of records carrying their key, in insertion order.             *)
(***************************************************************************)
EXTENDS Integers, Sequences, FiniteSets, TLC

VARIABLES pc, no_cache, batch_size, now, store, cache, cutoff_date, loaded,
          world, futures, collected, all_articles, articles_to_summarize, i, batch,
          j, returned, requests, written, rendered, logged, exc, expect, got,
          arg, result

vars == <<pc, no_cache, batch_size, now, store, cache, cutoff_date, loaded,
          world, futures, collected, all_articles, articles_to_summarize, i, batch,
          j, returned, requests, written, rendered, logged, exc, expect, got,
          arg, result>>

----------------------------------------------------------------------------
(* Bounds of the model *)

\* largest --batch-size explored
MaxBatch == 2
\* how many times the clock advances during one run
MaxTicks == 1

(* Program constants *)

CACHE_EXPIRY_DAYS == 7
\* the wall-clock day on which the run starts
Now0 == 10

None == <<"<None>">>
NOT_AVAILABLE == <<"[Summary not available]">>
FAILED == <<"[Summary failed]">>

\* Python truthiness of an Optional[str]
Truthy(s) == s # None /\ s # <<>>

----------------------------------------------------------------------------
(* str helpers *)

IsSpace(c) == c \in {" ", "\n"}
IsDigit(c) == c \in {"0", "1", "2", "3", "4", "5", "6", "7", "8", "9"}

RECURSIVE lstrip(_)
lstrip(s) == IF s # <<>> /\ IsSpace(Head(s)) THEN lstrip(Tail(s)) ELSE s

RECURSIVE rstrip(_)
rstrip(s) ==
    IF s # <<>> /\ IsSpace(s[Len(s)]) THEN rstrip(SubSeq(s, 1, Len(s) - 1)) ELSE s

strip(s) == rstrip(lstrip(s))

Contains(s, c) == \E k \in 1..Len(s) : s[k] = c

FirstIndex(s, c) == CHOOSE k \in 1..Len(s) : s[k] = c /\ \A m \in 1..(k - 1) : s[m] # c

\* s.split(c)
RECURSIVE split(_, _)
split(s, c) ==
    IF Contains(s, c)
    THEN <<SubSeq(s, 1, FirstIndex(s, c) - 1)>>
             \o split(SubSeq(s, FirstIndex(s, c) + 1, Len(s)), c)
    ELSE <<s>>

\* s.rsplit(c, 1)[-1]
split1_last_rsplit(s, c) ==
    IF Contains(s, c)
    THEN LET k == CHOOSE k \in 1..Len(s) : s[k] = c /\ \A m \in (k + 1)..Len(s) : s[m] # c
         IN SubSeq(s, k + 1, Len(s))
    ELSE s

\* s.split(c, 1)[-1]
split1_last(s, c) ==
    IF Contains(s, c) THEN SubSeq(s, FirstIndex(s, c) + 1, Len(s)) ELSE s

\* s[:n]
Take(s, n) == SubSeq(s, 1, IF n < Len(s) THEN n ELSE Len(s))

----------------------------------------------------------------------------
(* parse_batch_summaries *)

\* line.startswith(('1.', '2.', '3.'))
StartsWithMarker(line) ==
    Len(line) >= 2 /\ line[1] \in {"1", "2", "3"} /\ line[2] = "."

Flush(summaries, current_summary) ==
    IF current_summary # <<>> THEN Append(summaries, strip(current_summary))
    ELSE summaries

RECURSIVE parse_loop(_, _, _)
parse_loop(lines, summaries, current_summary) ==
    IF lines = <<>> THEN Flush(summaries, current_summary)
    ELSE LET line == strip(Head(lines)) IN
         IF line # <<>> /\ (IsDigit(line[1]) \/ StartsWithMarker(line))
         THEN parse_loop(Tail(lines), Flush(summaries, current_summary),
                         IF Contains(line, ".") THEN strip(split1_last(line, "."))
                         ELSE line)
         ELSE IF current_summary # <<>> /\ line # <<>>
         THEN parse_loop(Tail(lines), summaries, current_summary \o <<" ">> \o line)
         ELSE parse_loop(Tail(lines), summaries, current_summary)

parse_batch_summaries(text, expected_count) ==
    Take(parse_loop(split(strip(text), "\n"), <<>>, <<>>), expected_count)

----------------------------------------------------------------------------
(* The cache store file and SmartCache *)

\* datetime.isoformat / datetime.fromisoformat: a date string of the store is
\* either the ISO text of a day or text that does not parse
isoformat(t) == [iso |-> TRUE, t |-> t]
BadDate == [iso |-> FALSE, t |-> 0]

\* one JSON object of the store: the keys it has and their values
RawEntry(k, hasSummary, s, hasDate, d, title) ==
    [key |-> k, has_summary |-> hasSummary, summary |-> s,
     has_fetch_date |-> hasDate, fetch_date |-> d, title |-> title]

\* the file: absent, or present with text that is a JSON object or is not
MissingStore == [exists |-> FALSE, valid |-> FALSE, entries |-> <<>>]
GarbageStore == [exists |-> TRUE, valid |-> FALSE, entries |-> <<>>]
JsonStore(entries) == [exists |-> TRUE, valid |-> TRUE, entries |-> entries]

\* a purge that keeps the entry whose age is exactly the expiry
RECURSIVE clean_loop_inclusive(_, _, _)
clean_loop_inclusive(raw, cutoff, cleaned) ==
    IF raw = <<>> THEN [raised |-> FALSE, value |-> cleaned]
    ELSE LET entry == Head(raw) IN
         IF entry.has_fetch_date
         THEN IF ~entry.fetch_date.iso THEN [raised |-> TRUE, value |-> <<>>]
              ELSE IF entry.fetch_date.t >= cutoff
                   THEN clean_loop_inclusive(Tail(raw), cutoff, Append(cleaned, entry))
                   ELSE clean_loop_inclusive(Tail(raw), cutoff, cleaned)
         ELSE clean_loop_inclusive(Tail(raw), cutoff, cleaned)

\* the loop of load_cache over raw_cache.items(); raised is TRUE when
\* fromisoformat raises inside the loop
RECURSIVE clean_loop(_, _, _)
clean_loop(raw, cutoff, cleaned) ==
    IF raw = <<>> THEN [raised |-> FALSE, value |-> cleaned]
    ELSE LET entry == Head(raw) IN
         IF entry.has_fetch_date
         THEN IF ~entry.fetch_date.iso THEN [raised |-> TRUE, value |-> <<>>]
              ELSE IF entry.fetch_date.t > cutoff
                   THEN clean_loop(Tail(raw), cutoff, Append(cleaned, entry))
                   ELSE clean_loop(Tail(raw), cutoff, cleaned)
         ELSE clean_loop(Tail(raw), cutoff, cleaned)

\* a load that leaves out the entries holding a sentinel
load_cache_drop_sentinels(st, today) ==
    IF ~st.exists THEN <<>>
    ELSE IF ~st.valid THEN <<>>
    ELSE LET r == clean_loop(st.entries, today - CACHE_EXPIRY_DAYS, <<>>) IN
         IF r.raised THEN <<>>
         ELSE SelectSeq(r.value, LAMBDA e : e.summary \notin {NOT_AVAILABLE, FAILED})

load_cache(st, today) ==
    IF ~st.exists THEN <<>>
    ELSE IF ~st.valid THEN <<>>
    ELSE LET r == clean_loop(st.entries, today - CACHE_EXPIRY_DAYS, <<>>) IN
         IF r.raised THEN <<>> ELSE r.value

HasKey(c, h) == \E k \in 1..Len(c) : c[k].key = h
IndexOf(c, h) == CHOOSE k \in 1..Len(c) : c[k].key = h

\* a lookup that never finds anything
get_summary_miss(c, h) == [raised |-> FALSE, value |-> None]

\* get_summary: value is what is returned, raised is the KeyError of
\* entry['summary'] on an entry without that key
get_summary(c, h) ==
    IF HasKey(c, h)
    THEN IF c[IndexOf(c, h)].has_summary
         THEN [raised |-> FALSE, value |-> c[IndexOf(c, h)].summary]
         ELSE [raised |-> TRUE, value |-> None]
    ELSE [raised |-> FALSE, value |-> None]

\* a put that keeps the entry a key already has
set_summary_keep_first(c, h, summary, article_title, today) ==
    IF HasKey(c, h) THEN c
    ELSE Append(c, RawEntry(h, TRUE, summary, TRUE, isoformat(today), Take(article_title, 100)))

set_summary(c, h, summary, article_title, today) ==
    LET e == RawEntry(h, TRUE, summary, TRUE, isoformat(today), Take(article_title, 100)) IN
    IF HasKey(c, h) THEN [c EXCEPT ![IndexOf(c, h)] = e] ELSE Append(c, e)

----------------------------------------------------------------------------
(* Source registry and fetcher *)

\* FEEDS_CONFIG restricted by --feeds to two of its sources
Feeds == {"science_daily", "variety_movies"}
FEEDS_CONFIG ==
    [f \in Feeds |->
        IF f = "science_daily" THEN [max_articles |-> 10, category |-> "Science"]
        ELSE [max_articles |-> 3, category |-> "Entertainment"]]

\* hashlib.md5(...).hexdigest(), idealised as collision free: the digest
\* determines the text that was hashed
md5(text) == <<"md5:">> \o text

\* line 193: the digest of f"{title}{article_text}"
fingerprint(title, article_text) == md5(title \o article_text)

\* one entry of a parsed feed, with the page that its link serves
FeedEntry(title, link, summary, pageOk, pageText) ==
    [title |-> title, link |-> link, summary |-> summary, published |-> None,
     page |-> [ok |-> pageOk, text |-> pageText]]

\* extract_article_content: the page text when a selector yields enough
\* text, the feed's own summary otherwise
extract_article_content(page, fallback_summary) ==
    IF page.ok THEN page.text ELSE fallback_summary

Article(title, link, content, source, category, published, content_hash, fetch_date) ==
    [title |-> title, link |-> link, content |-> content, source |-> source,
     category |-> category, published |-> published, summary |-> None,
     content_hash |-> content_hash, fetch_date |-> fetch_date]

RECURSIVE entry_loop(_, _, _, _)
entry_loop(entries, feed_name, today, articles) ==
    IF entries = <<>> THEN articles
    ELSE LET entry == Head(entries) IN
         IF entry.title = <<>> \/ entry.link = <<>>
         THEN entry_loop(Tail(entries), feed_name, today, articles)
         ELSE LET article_text == extract_article_content(entry.page, entry.summary)
              IN entry_loop(Tail(entries), feed_name, today,
                     Append(articles,
                            Article(entry.title, entry.link, article_text, feed_name,
                                    FEEDS_CONFIG[feed_name].category, entry.published,
                                    fingerprint(entry.title, article_text),
                                    isoformat(today))))

\* a fetcher that applies the item limit to the articles, not to the entries
fetch_body_limit_after(feed_name, served, today) ==
    IF served.raises THEN [raised |-> TRUE, value |-> <<>>]
    ELSE IF served.entries = <<>> THEN [raised |-> FALSE, value |-> <<>>]
    ELSE [raised |-> FALSE,
          value |-> Take(entry_loop(served.entries, feed_name, today, <<>>),
                         FEEDS_CONFIG[feed_name].max_articles)]

\* the body of fetch_feed_articles inside its try block; feedparser.parse
\* raises when the endpoint is unreachable
fetch_body(feed_name, served, today) ==
    IF served.raises THEN [raised |-> TRUE, value |-> <<>>]
    ELSE IF served.entries = <<>> THEN [raised |-> FALSE, value |-> <<>>]
    ELSE [raised |-> FALSE,
          value |-> entry_loop(Take(served.entries, FEEDS_CONFIG[feed_name].max_articles),
                               feed_name, today, <<>>)]

\* a fetcher without the outer except
fetch_feed_articles_propagates(feed_name, served, today) ==
    fetch_body(feed_name, served, today)

\* fetch_feed_articles: the outer except turns any exception into []
fetch_feed_articles(feed_name, served, today) ==
    LET r == fetch_body(feed_name, served, today) IN
    IF r.raised THEN [raised |-> FALSE, value |-> <<>>] ELSE r

(* What the network can serve *)

eA == FeedEntry(<<"a">>, <<"la">>, <<"x">>, TRUE, <<"p">>)
eB == FeedEntry(<<"b">>, <<"lb">>, <<"y">>, FALSE, <<>>)
eC == FeedEntry(<<"c">>, <<"lc">>, <<"z">>, TRUE, <<"q">>)
\* line 185: this entry carries a publication date
eD == [FeedEntry(<<"d">>, <<"ld">>, <<"w">>, TRUE, <<"r">>) EXCEPT !.published = <<"2024-01-01">>]
eN == FeedEntry(<<>>, <<"ln">>, <<"v">>, TRUE, <<"t">>)

Unreachable == [raises |-> TRUE, entries |-> <<>>]
Served(entries) == [raises |-> FALSE, entries |-> entries]

Net(science, variety) ==
    [f \in Feeds |-> IF f = "science_daily" THEN science ELSE variety]

\* what the two endpoints serve during one run
NetWorlds ==
    { Net(Served(<<eA, eB, eC>>), Served(<<>>)),
      Net(Served(<<eA, eB, eC>>), Unreachable),
      Net(Served(<<eA, eB>>), Served(<<eD>>)),
      Net(Served(<<eA>>), Served(<<eA>>)),
      Net(Unreachable, Served(<<eN, eD>>)),
      Net(Served(<<>>), Served(<<>>)),
      Net(Unreachable, Unreachable) }

HA == md5(<<"a", "p">>)
HB == md5(<<"b", "y">>)
HC == md5(<<"c", "q">>)

Old == <<"o", "l", "d">>

\* a store written by an earlier run: a fresh entry, an expired one and one
\* whose age is exactly the expiry
FullStore ==
    JsonStore(<<RawEntry(HA, TRUE, Old, TRUE, isoformat(Now0 - 1), <<"a">>),
                RawEntry(HB, TRUE, Old, TRUE, isoformat(Now0 - CACHE_EXPIRY_DAYS - 1), <<"b">>),
                RawEntry(HC, TRUE, Old, TRUE, isoformat(Now0 - CACHE_EXPIRY_DAYS), <<"c">>)>>)

StoreWorlds ==
    { MissingStore,
      GarbageStore,
      FullStore,
      JsonStore(<<RawEntry(HA, FALSE, None, TRUE, isoformat(Now0 - 1), <<"a">>)>>),
      JsonStore(<<RawEntry(HA, TRUE, Old, TRUE, isoformat(Now0 - 1), <<"a">>),
                  RawEntry(HB, TRUE, Old, TRUE, BadDate, <<"b">>)>>),
      JsonStore(<<RawEntry(HA, TRUE, <<>>, TRUE, isoformat(Now0 - 1), <<"a">>)>>) }

----------------------------------------------------------------------------
(* The summarization service and the batch summarizer *)

\* the sentence the service writes for an article
ServiceSummary(a) == <<"S">> \o a.title

DigitChar(n) ==
    CASE n = 1 -> "1" [] n = 2 -> "2" [] n = 3 -> "3" [] n = 4 -> "4" [] n = 5 -> "5"
      [] n = 6 -> "6" [] n = 7 -> "7" [] n = 8 -> "8" [] OTHER -> "9"

\* the response text "1. <sentence>\n2. <sentence>..." for the first k articles
RECURSIVE NumberedText(_, _)
NumberedText(arts, k) ==
    IF k = 0 THEN <<>>
    ELSE (IF k = 1 THEN <<>> ELSE NumberedText(arts, k - 1) \o <<"\n">>)
             \o <<DigitChar(k), ".", " ">> \o ServiceSummary(arts[k])

Raised == [raised |-> TRUE, text |-> None]
Replied(text) == [raised |-> FALSE, text |-> text]

\* outcomes of client.chat.completions.create for a batch prompt: an error,
\* an empty message, an unnumbered apology, or the first k of the n items
BatchResponses(arts) ==
    {Raised, Replied(<<>>), Replied(<<"sorry">>)}
        \cup {Replied(NumberedText(arts, k)) : k \in 1..Len(arts)}

\* outcomes for a single-article prompt
IndividualResponses(a) ==
    {Raised, Replied(<<>>), Replied(<<" ">>), Replied(ServiceSummary(a) \o <<"\n">>)}

\* an assignment that stops one summary short
batch_assign_strict(arts, idx, summaries) ==
    [k \in DOMAIN arts |->
        IF \E m \in 1..Len(idx) : idx[m] = k
        THEN LET m == CHOOSE m \in 1..Len(idx) : idx[m] = k IN
             IF m < Len(summaries)
             THEN [arts[k] EXCEPT !.summary = summaries[m]]
             ELSE [arts[k] EXCEPT !.summary = NOT_AVAILABLE]
        ELSE arts[k]]

\* lines 296-300: summaries assigned by position, the sentinel beyond them
batch_assign(arts, idx, summaries) ==
    [k \in DOMAIN arts |->
        IF \E m \in 1..Len(idx) : idx[m] = k
        THEN LET m == CHOOSE m \in 1..Len(idx) : idx[m] = k IN
             IF m <= Len(summaries)
             THEN [arts[k] EXCEPT !.summary = summaries[m]]
             ELSE [arts[k] EXCEPT !.summary = NOT_AVAILABLE]
        ELSE arts[k]]

\* a summarizer that also gives up on a response with fewer items than articles
batch_failed_on_shortfall(resp, n) ==
    \/ resp.raised
    \/ ~Truthy(resp.text)
    \/ Len(parse_batch_summaries(resp.text, n)) < n

\* whether the try block of summarize_articles_batch, given n articles, ends
\* in its except clause
batch_failed(resp, n) == resp.raised \/ ~Truthy(resp.text)

\* an except clause that only logs
individual_summary_unset(resp) ==
    IF resp.raised THEN None
    ELSE IF Truthy(resp.text) THEN strip(resp.text) ELSE NOT_AVAILABLE

\* lines 350-356: the summary one individual request leaves in the article
individual_summary(resp) ==
    IF resp.raised THEN FAILED
    ELSE IF Truthy(resp.text) THEN strip(resp.text) ELSE NOT_AVAILABLE

\* a try block around the whole loop instead of inside it
individual_next_abort(k, n, resp) == IF resp.raised THEN n + 1 ELSE k + 1

\* the loop of summarize_articles_individually: the index handled after
\* index k of n, n + 1 when the loop is over
individual_next(k, n, resp) == k + 1

\* articles_to_summarize[i:i + batch_size]
Slice(s, from, to) == SubSeq(s, from + 1, IF to < Len(s) THEN to ELSE Len(s))

\* a lookup that sends only the first of the articles sharing a content_hash
RECURSIVE lookup_loop_dedup(_, _, _, _, _)
lookup_loop_dedup(arts, k, c, use_cache, todo) ==
    IF k > Len(arts) THEN [raised |-> FALSE, articles |-> arts, todo |-> todo]
    ELSE IF \E m \in 1..Len(todo) : arts[todo[m]].content_hash = arts[k].content_hash
         THEN lookup_loop_dedup(arts, k + 1, c, use_cache, todo)
         ELSE lookup_loop_dedup(arts, k + 1, c, use_cache, Append(todo, k))

\* lines 493-502 of main: value.articles carry the cached summaries,
\* value.todo lists the positions left to summarize
RECURSIVE lookup_loop(_, _, _, _, _)
lookup_loop(arts, k, c, use_cache, todo) ==
    IF k > Len(arts) THEN [raised |-> FALSE, articles |-> arts, todo |-> todo]
    ELSE IF use_cache /\ Truthy(arts[k].content_hash)
         THEN LET r == get_summary(c, arts[k].content_hash) IN
              IF r.raised THEN [raised |-> TRUE, articles |-> arts, todo |-> todo]
              ELSE IF Truthy(r.value)
                   THEN lookup_loop([arts EXCEPT ![k].summary = r.value], k + 1, c,
                                    use_cache, todo)
                   ELSE lookup_loop(arts, k + 1, c, use_cache, Append(todo, k))
         ELSE lookup_loop(arts, k + 1, c, use_cache, Append(todo, k))

\* a write-back that leaves the sentinels out of the cache
RECURSIVE cache_results_skip_sentinels(_, _, _, _)
cache_results_skip_sentinels(c, arts, idx, today) ==
    IF idx = <<>> THEN c
    ELSE LET a == arts[Head(idx)] IN
         cache_results_skip_sentinels(
             IF Truthy(a.content_hash) /\ Truthy(a.summary)
                    /\ a.summary \notin {NOT_AVAILABLE, FAILED}
             THEN set_summary(c, a.content_hash, a.summary, a.title, today)
             ELSE c,
             arts, Tail(idx), today)

\* lines 515-518 of main
RECURSIVE cache_results(_, _, _, _)
cache_results(c, arts, idx, today) ==
    IF idx = <<>> THEN c
    ELSE LET a == arts[Head(idx)] IN
         cache_results(IF Truthy(a.content_hash) /\ Truthy(a.summary)
                       THEN set_summary(c, a.content_hash, a.summary, a.title, today)
                       ELSE c,
                       arts, Tail(idx), today)

----------------------------------------------------------------------------
(* main *)

NotRendered == [called |-> FALSE, articles |-> <<>>]
NoFuture == [state |-> "pending", raised |-> FALSE, result |-> <<>>]

\* ThreadPoolExecutor(max_workers=4)
max_workers == 4

Init ==
    /\ pc = "start"
    /\ no_cache \in BOOLEAN
    /\ batch_size \in 1..MaxBatch
    /\ now = Now0
    /\ store \in (IF no_cache THEN {FullStore} ELSE StoreWorlds)
    /\ world \in NetWorlds
    /\ cache = <<>>
    /\ cutoff_date = 0
    /\ loaded = <<>>
    /\ futures = [f \in Feeds |-> NoFuture]
    /\ collected = <<>>
    /\ all_articles = <<>>
    /\ articles_to_summarize = <<>>
    /\ i = 0
    /\ batch = <<>>
    /\ j = 0
    /\ returned = <<>>
    /\ requests = <<>>
    /\ written = 0
    /\ rendered = NotRendered
    /\ logged = {}
    /\ exc = "none"
    /\ expect = <<>>
    /\ got = <<>>
    /\ arg = <<>>
    /\ result = <<>>

\* lines 463-479: SmartCache(CACHE_FILE) unless --no-cache, then the fetch
\* tasks are submitted
Startup ==
    /\ pc = "start"
    /\ IF no_cache
       THEN UNCHANGED <<cache, loaded, cutoff_date, logged>>
       ELSE /\ cache' = load_cache(store, now)
            /\ loaded' = cache'
            /\ cutoff_date' = now - CACHE_EXPIRY_DAYS
            /\ logged' =
                 IF ~store.exists THEN logged
                 ELSE IF ~store.valid
                         \/ clean_loop(store.entries, now - CACHE_EXPIRY_DAYS, <<>>).raised
                      THEN logged \cup {"Could not load cache"}
                      ELSE logged \cup {"Loaded cached summaries"}
    /\ pc' = "fetch"
    /\ UNCHANGED <<no_cache, batch_size, now, store, world, futures, collected, all_articles,
                   articles_to_summarize, i, batch, j, returned, requests, written,
                   rendered, exc, expect, got, arg, result>>

\* a pool worker takes the task of feed f
FetchStart(f) ==
    /\ pc = "fetch"
    /\ futures[f].state = "pending"
    /\ Cardinality({g \in Feeds : futures[g].state = "running"}) < max_workers
    /\ futures' = [futures EXCEPT ![f].state = "running"]
    /\ UNCHANGED <<pc, no_cache, batch_size, now, store, cache, cutoff_date, loaded,
                   world, collected, all_articles, articles_to_summarize, i, batch, j,
                   returned, requests, written, rendered, logged, exc, expect, got, arg, result>>

\* the worker runs fetch_feed_articles(f, config) to its end
FetchFinish(f) ==
    /\ futures[f].state = "running"
    /\ LET r == fetch_feed_articles(f, world[f], now) IN
       futures' = [futures EXCEPT ![f] = [state |-> "done", raised |-> r.raised,
                                          result |-> r.value]]
    /\ UNCHANGED <<pc, no_cache, batch_size, now, store, cache, cutoff_date, loaded,
                   world, collected, all_articles, articles_to_summarize, i, batch, j,
                   returned, requests, written, rendered, logged, exc, expect, got, arg, result>>

\* a driver that goes on once the first finished future is collected, the
\* other tasks still in the pool
Collect_first_completed(f) ==
    /\ pc = "fetch"
    /\ futures[f].state = "done"
    /\ \A k \in 1..Len(collected) : collected[k] # f
    /\ IF futures[f].raised
       THEN /\ pc' = "error"
            /\ exc' = "fetch"
            /\ UNCHANGED <<collected, all_articles>>
       ELSE /\ all_articles' = all_articles \o futures[f].result
            /\ collected' = Append(collected, f)
            /\ pc' = "merged"
            /\ exc' = exc
    /\ UNCHANGED <<no_cache, batch_size, now, store, cache, cutoff_date, loaded, world, futures,
                   articles_to_summarize, i, batch, j, returned, requests, written,
                   rendered, logged, expect, got, arg, result>>

\* lines 481-483: as_completed yields a finished future, main extends the list
Collect(f) ==
    /\ pc = "fetch"
    /\ futures[f].state = "done"
    /\ \A k \in 1..Len(collected) : collected[k] # f
    /\ IF futures[f].raised
       THEN /\ pc' = "error"
            /\ exc' = "fetch"
            /\ UNCHANGED <<collected, all_articles>>
       ELSE /\ all_articles' = all_articles \o futures[f].result
            /\ collected' = Append(collected, f)
            /\ pc' = IF Len(collected') = Cardinality(Feeds) THEN "merged" ELSE "fetch"
            /\ exc' = exc
    /\ UNCHANGED <<no_cache, batch_size, now, store, cache, cutoff_date, loaded, world, futures,
                   articles_to_summarize, i, batch, j, returned, requests, written,
                   rendered, logged, expect, got, arg, result>>

\* a driver without the early return
CheckEmpty_no_return ==
    /\ pc = "merged"
    /\ pc' = "lookup"
    /\ UNCHANGED <<no_cache, batch_size, now, store, cache, cutoff_date, loaded, world,
                   futures, collected, all_articles, articles_to_summarize, i, batch, j,
                   returned, requests, written, rendered, logged, exc, expect, got,
                   arg, result>>

\* lines 485-487
CheckEmpty ==
    /\ pc = "merged"
    /\ IF all_articles = <<>>
       THEN /\ logged' = logged \cup {"No articles found from any feed"}
            /\ pc' = "done"
       ELSE /\ logged' = logged
            /\ pc' = "lookup"
    /\ UNCHANGED <<no_cache, batch_size, now, store, cache, cutoff_date, loaded, world, futures,
                   collected, all_articles, articles_to_summarize, i, batch, j, returned,
                   requests, written, rendered, exc, expect, got, arg, result>>

\* a driver that saves whether or not caching is enabled
AfterSummarize_always_save == "save"

\* lines 523-524: where main goes after the summarization loop
AfterSummarize == IF no_cache THEN "render" ELSE "save"

\* an except clause that raises again
save_cache_reraise == "error"

\* lines 164-165: where main goes on after the except clause of save_cache
save_cache_except == "render"

\* line 510: range(0, len(articles_to_summarize), batch_size) raises ValueError
\* for a step of 0, is empty for a negative step, and starts at 0 otherwise
first_chunk(step) ==
    IF step = 0 THEN "error" ELSE IF step < 0 THEN AfterSummarize ELSE "summarize"

\* lines 491-510
Lookup ==
    /\ pc = "lookup"
    /\ LET r == lookup_loop(all_articles, 1, cache, ~no_cache, <<>>) IN
       IF r.raised
       THEN /\ pc' = "error"
            /\ exc' = "KeyError"
            /\ UNCHANGED <<all_articles, articles_to_summarize>>
       ELSE /\ all_articles' = r.articles
            /\ articles_to_summarize' = r.todo
            /\ pc' = IF r.todo # <<>> THEN first_chunk(batch_size) ELSE AfterSummarize
            /\ exc' = IF pc' = "error" THEN "ValueError" ELSE exc
    /\ i' = 0
    /\ UNCHANGED <<no_cache, batch_size, now, store, cache, cutoff_date, loaded, world, futures,
                   collected, batch, j, returned, requests, written, rendered, logged,
                   expect, got, arg, result>>

ArticlesOf(idx) == [m \in 1..Len(idx) |-> all_articles[idx[m]]]

\* line 255: @retry(stop=stop_after_attempt(3), ...)
stop_after_attempt == 3

\* the batch requests made so far for the chunk starting at c
BatchAttempts(c) ==
    Len(SelectSeq(requests, LAMBDA r : r.kind = "batch" /\ r.chunk = c))

\* lines 255 and 305-308: where the run goes after the failed batch request
\* that was attempt number attempt of its chunk.  The except clause is inside
\* the decorated function: the decorator sees a normal return, whatever the
\* attempt, and the fallback starts at once.
after_batch_failure(attempt) == "individual"

\* lines 511-512 and 256-308: the chunk is cut and its batch request answered
BatchRequest ==
    /\ pc = "summarize"
    /\ LET chunk == Slice(articles_to_summarize, i, i + batch_size) IN
       \E resp \in BatchResponses(ArticlesOf(chunk)) :
         /\ batch' = chunk
         /\ requests' = Append(requests, [kind |-> "batch", chunk |-> i, arts |-> chunk,
                                          resp |-> resp])
         /\ IF batch_failed(resp, Len(chunk))
            THEN /\ logged' = logged \cup {"Batch summary failed"}
                 /\ pc' = after_batch_failure(BatchAttempts(i) + 1)
                 /\ j' = 1
                 /\ UNCHANGED <<all_articles, returned>>
            ELSE /\ all_articles' = batch_assign(all_articles, chunk,
                                       parse_batch_summaries(resp.text, Len(chunk)))
                 /\ returned' = chunk
                 /\ logged' = logged \cup {"Successfully summarized in batch"}
                 /\ pc' = "cache_results"
                 /\ j' = 0
    /\ UNCHANGED <<no_cache, batch_size, now, store, cache, cutoff_date, loaded, world, futures,
                   collected, articles_to_summarize, i, written, rendered, exc, expect, got,
                   arg, result>>

\* lines 333-358: one turn of the loop of summarize_articles_individually
IndividualRequest ==
    /\ pc = "individual"
    /\ \E resp \in IndividualResponses(all_articles[batch[j]]) :
         /\ requests' = Append(requests, [kind |-> "single", chunk |-> i,
                                          arts |-> <<batch[j]>>, resp |-> resp])
         /\ all_articles' = [all_articles EXCEPT ![batch[j]].summary = individual_summary(resp)]
         /\ logged' = IF resp.raised THEN logged \cup {"Individual summary failed"} ELSE logged
         /\ j' = individual_next(j, Len(batch), resp)
         /\ IF j' > Len(batch)
            THEN pc' = "cache_results" /\ returned' = batch
            ELSE pc' = "individual" /\ returned' = returned
    /\ UNCHANGED <<no_cache, batch_size, now, store, cache, cutoff_date, loaded, world, futures,
                   collected, articles_to_summarize, i, batch, written, rendered, exc,
                   expect, got, arg, result>>

\* a write-back that hashes the chunk's articles again, from the content alone
CacheResults_rehash ==
    /\ pc = "cache_results"
    /\ all_articles' =
         [k \in DOMAIN all_articles |->
             IF \E m \in 1..Len(returned) : returned[m] = k
             THEN [all_articles[k] EXCEPT !.content_hash = md5(all_articles[k].content)]
             ELSE all_articles[k]]
    /\ cache' = IF no_cache THEN cache ELSE cache_results(cache, all_articles', returned, now)
    /\ i' = i + batch_size
    /\ pc' = IF i' < Len(articles_to_summarize) THEN "summarize" ELSE AfterSummarize
    /\ UNCHANGED <<no_cache, batch_size, now, store, cutoff_date, loaded, world, futures,
                   collected, articles_to_summarize, batch, j, returned,
                   requests, written, rendered, logged, exc, expect, got, arg, result>>

\* lines 514-520: the chunk's summaries go to the cache, then the next chunk
CacheResults ==
    /\ pc = "cache_results"
    /\ cache' = IF no_cache THEN cache ELSE cache_results(cache, all_articles, returned, now)
    /\ i' = i + batch_size
    /\ pc' = IF i' < Len(articles_to_summarize) THEN "summarize" ELSE AfterSummarize
    /\ UNCHANGED <<no_cache, batch_size, now, store, cutoff_date, loaded, world, futures,
                   collected, all_articles, articles_to_summarize, batch, j, returned,
                   requests, written, rendered, logged, exc, expect, got, arg, result>>

\* line 162: open(cache_file, 'w') truncates the file, or fails
SaveOpen ==
    /\ pc = "save"
    /\ \E ok \in BOOLEAN :
         IF ok
         THEN /\ store' = [exists |-> TRUE, valid |-> FALSE, entries |-> <<>>]
              /\ pc' = "save_write"
              /\ logged' = logged
         ELSE /\ store' = store
              /\ pc' = save_cache_except
              /\ logged' = logged \cup {"Could not save cache"}
    /\ written' = 0
    /\ UNCHANGED <<no_cache, batch_size, now, cache, cutoff_date, loaded, world, futures,
                   collected, all_articles, articles_to_summarize, i, batch, j, returned,
                   requests, rendered, exc, expect, got, arg, result>>

\* line 163: json.dump writes the next entry, the last write completes the
\* JSON text; a write can fail and leave what was written so far
SaveWrite ==
    /\ pc = "save_write"
    /\ \E ok \in BOOLEAN :
         IF ok
         THEN IF written + 1 >= Len(cache)
              THEN /\ store' = JsonStore(cache)
                   /\ written' = Len(cache)
                   /\ pc' = "render"
                   /\ logged' = logged
              ELSE /\ store' = [store EXCEPT !.entries = Take(cache, written + 1)]
                   /\ written' = written + 1
                   /\ pc' = "save_write"
                   /\ logged' = logged
         ELSE /\ UNCHANGED <<store, written>>
              /\ pc' = save_cache_except
              /\ logged' = logged \cup {"Could not save cache"}
    /\ UNCHANGED <<no_cache, batch_size, now, cache, cutoff_date, loaded, world, futures,
                   collected, all_articles, articles_to_summarize, i, batch, j, returned,
                   requests, rendered, exc, expect, got, arg, result>>

\* lines 527-528: generate_enhanced_html(all_articles, args.output)
Render ==
    /\ pc = "render"
    /\ rendered' = [called |-> TRUE, articles |-> all_articles]
    /\ logged' = logged \cup {"Process completed successfully"}
    /\ pc' = "done"
    /\ UNCHANGED <<no_cache, batch_size, now, store, cache, cutoff_date, loaded, world, futures,
                   collected, all_articles, articles_to_summarize, i, batch, j, returned,
                   requests, written, exc, expect, got, arg, result>>

Next ==
    \/ Startup
    \/ \E f \in Feeds : FetchStart(f)
    \/ \E f \in Feeds : FetchFinish(f)
    \/ \E f \in Feeds : Collect(f)
    \/ CheckEmpty
    \/ Lookup
    \/ BatchRequest
    \/ IndividualRequest
    \/ CacheResults
    \/ SaveOpen
    \/ SaveWrite
    \/ Render

Spec == Init /\ [][Next]_vars

----------------------------------------------------------------------------
(* Properties of the batch summarizer *)

\* the merged list as the fetch tasks returned it
RECURSIVE Merged(_)
Merged(order) ==
    IF order = <<>> THEN <<>>
    ELSE Merged(SubSeq(order, 1, Len(order) - 1)) \o futures[order[Len(order)]].result

\* the requests made for the chunk starting at c, oldest first
ChunkRequests(c) == SelectSeq(requests, LAMBDA r : r.chunk = c)

IsSingleFor(r, k) == r.kind = "single" /\ r.arts = <<k>>

\* C1: summarize_articles_batch returns the N articles it was given, in the
\* same order, each with a summary that is not None, whatever the batch
\* request and the individual requests did.
C1_SameArticlesAllSummarized ==
    pc = "cache_results" =>
        /\ returned = Slice(articles_to_summarize, i, i + batch_size)
        /\ \A m \in 1..Len(returned) :
             /\ all_articles[returned[m]].summary # None
             /\ [all_articles[returned[m]] EXCEPT !.summary = None]
                    = Merged(collected)[returned[m]]

\* a chunk went through the fallback, one request raised and one was empty
C1_Witness ==
    /\ pc = "cache_results"
    /\ Len(returned) >= 2
    /\ \E m, n \in 1..Len(returned) :
         /\ all_articles[returned[m]].summary = FAILED
         /\ all_articles[returned[n]].summary = NOT_AVAILABLE
         /\ \E q \in 1..Len(requests) :
              requests[q].kind = "single" /\ requests[q].chunk = i

\* the batch response of request r parsed into at least one and fewer than
\* n items
ShortParse(r) ==
    /\ r.kind = "batch"
    /\ ~r.resp.raised
    /\ Truthy(r.resp.text)
    /\ Len(parse_batch_summaries(r.resp.text, Len(r.arts))) >= 1
    /\ Len(parse_batch_summaries(r.resp.text, Len(r.arts))) < Len(r.arts)

C3_FailedBatchOneRequestEach ==
    (pc \in {"individual", "cache_results"} /\ Len(ChunkRequests(i)) >= 1
        /\ batch_failed(ChunkRequests(i)[1].resp, Len(batch))) =>
        LET rs == ChunkRequests(i)
            done == IF pc = "individual" THEN j - 1 ELSE Len(batch)
        IN /\ rs[1].kind = "batch"
           /\ Len(rs) = 1 + done
           /\ pc = "individual" => j \in 1..Len(batch)
           /\ pc = "cache_results" => returned = batch
           /\ \A m \in 1..done :
                /\ IsSingleFor(rs[m + 1], batch[m])
                /\ rs[m + 1].resp.raised => all_articles[batch[m]].summary = FAILED
                /\ all_articles[batch[m]].summary = individual_summary(rs[m + 1].resp)

\* the first individual request of a failed batch raised and the later
\* articles of the chunk were still summarized
C3_Witness ==
    /\ pc = "cache_results"
    /\ Len(batch) >= 2
    /\ Len(ChunkRequests(i)) = 1 + Len(batch)
    /\ ChunkRequests(i)[1].resp.raised
    /\ ChunkRequests(i)[2].resp.raised
    /\ all_articles[batch[1]].summary = FAILED
    /\ all_articles[batch[2]].summary = ServiceSummary(all_articles[batch[2]])

----------------------------------------------------------------------------
(* Properties of the run *)

InSomeRequest(k) ==
    \E q \in 1..Len(requests) : \E m \in 1..Len(requests[q].arts) : requests[q].arts[m] = k

LoadedEntry(h) == loaded[IndexOf(loaded, h)]

C7_StoreNeverFatal == pc # "error"

\* C8: every step leaves the store as it was or installs the complete set of
\* current entries.
C8_SaveAtomic == [][store' = store \/ store' = JsonStore(cache)]_vars

\* C9: after a failed save the run goes on to the renderer, which gets every
\* fetched article with its summary, and ends without an error.
C9_SaveFailureNotFatal ==
    "Could not save cache" \in logged =>
        /\ pc \in {"render", "done"}
        /\ exc = "none"
        /\ pc = "done" =>
             /\ rendered.called
             /\ rendered.articles = all_articles
             /\ Len(rendered.articles) = Len(Merged(collected))
             /\ \A k \in 1..Len(rendered.articles) :
                  /\ rendered.articles[k].summary # None
                  /\ [rendered.articles[k] EXCEPT !.summary = None] = Merged(collected)[k]

\* the write failed part-way and the digest was rendered all the same
C9_Witness ==
    /\ pc = "done"
    /\ "Could not save cache" \in logged
    /\ store.exists /\ ~store.valid /\ store.entries # <<>>
    /\ rendered.called
    /\ Len(rendered.articles) >= 2

\* the articles of source f in the merged list, in list order
OfSource(f) == SelectSeq(all_articles, LAMBDA a : a.source = f)

RECURSIVE SumLen(_)
SumLen(fs) ==
    IF fs = {} THEN 0
    ELSE LET f == CHOOSE f \in fs : TRUE IN Len(futures[f].result) + SumLen(fs \ {f})

\* C10: fetch_feed_articles never raises and returns [] for a source that is
\* unreachable or empty; the merged list holds exactly the articles the
\* sources returned, and a run with articles goes on to the renderer.
C10_FailingSourceGivesNothing ==
    /\ exc # "fetch"
    /\ \A f \in Feeds :
         futures[f].state = "done" =>
            /\ ~futures[f].raised
            /\ (world[f].raises \/ world[f].entries = <<>>) => futures[f].result = <<>>
    /\ pc \notin {"start", "fetch"} =>
         /\ Len(all_articles) = SumLen(Feeds)
         /\ \A f \in Feeds :
              [k \in 1..Len(OfSource(f)) |-> [OfSource(f)[k] EXCEPT !.summary = None]]
                  = futures[f].result
    /\ (pc = "done" /\ all_articles # <<>>) => rendered.called

\* one source served three entries, the other failed, and the three articles
\* went on to the cache lookup
C10_Witness ==
    /\ pc = "lookup"
    /\ Len(all_articles) = 3
    /\ \E f, g \in Feeds :
         /\ world[f].raises
         /\ futures[f].result = <<>>
         /\ Len(futures[g].result) = 3

----------------------------------------------------------------------------
(* SmartCache used on its own: load, then puts and gets in any order *)

Unset == <<"<unset>">>
CacheKeys == {HA, HB, md5(<<"d", "r">>)}
StoreDates == {Now0 - CACHE_EXPIRY_DAYS - 1, Now0 - CACHE_EXPIRY_DAYS,
               Now0 - CACHE_EXPIRY_DAYS + 1}

\* readable stores whose entries are all well formed
WellFormedStores ==
    { JsonStore(<<RawEntry(HA, TRUE, Old, TRUE, isoformat(da), <<"a">>),
                  RawEntry(HB, TRUE, Old, TRUE, isoformat(db), <<"b">>),
                  RawEntry(HC, TRUE, Old, TRUE, isoformat(dc), <<"c">>)>>) :
        da \in StoreDates, db \in StoreDates, dc \in StoreDates }

InitCache ==
    /\ pc = "c_new"
    /\ no_cache = FALSE
    /\ batch_size = 1
    /\ now = Now0
    /\ store \in WellFormedStores
    /\ world = Net(Unreachable, Unreachable)
    /\ cache = <<>>
    /\ cutoff_date = 0
    /\ loaded = <<>>
    /\ futures = [f \in Feeds |-> NoFuture]
    /\ collected = <<>>
    /\ all_articles = <<>>
    /\ articles_to_summarize = <<>>
    /\ i = 0
    /\ batch = <<>>
    /\ j = 0
    /\ returned = <<>>
    /\ requests = <<>>
    /\ written = 0
    /\ rendered = NotRendered
    /\ logged = {}
    /\ exc = "none"
    /\ expect = [h \in CacheKeys |-> Unset]
    /\ got = <<>>
    /\ arg = <<>>
    /\ result = <<>>

\* SmartCache(CACHE_FILE)
CLoad ==
    /\ pc = "c_new"
    /\ cache' = load_cache(store, now)
    /\ loaded' = cache'
    /\ cutoff_date' = now - CACHE_EXPIRY_DAYS
    /\ pc' = "c_ready"
    /\ UNCHANGED <<no_cache, batch_size, now, store, world, futures, collected,
                   all_articles, articles_to_summarize, i, batch, j, returned, requests,
                   written, rendered, logged, exc, expect, got, arg, result>>

\* cache.set_summary(h, s, title)
CSet(h, s, title) ==
    /\ pc = "c_ready"
    /\ cache' = set_summary(cache, h, s, title, now)
    /\ expect' = [expect EXCEPT ![h] = s]
    /\ UNCHANGED <<pc, no_cache, batch_size, now, store, cutoff_date, loaded, world,
                   futures, collected, all_articles, articles_to_summarize, i, batch, j,
                   returned, requests, written, rendered, logged, exc, got, arg, result>>

\* cache.get_summary(h)
CGet(h) ==
    /\ pc = "c_ready"
    /\ got' = <<h, get_summary(cache, h)>>
    /\ UNCHANGED <<pc, no_cache, batch_size, now, store, cache, cutoff_date, loaded, world,
                   futures, collected, all_articles, articles_to_summarize, i, batch, j,
                   returned, requests, written, rendered, logged, exc, expect, arg, result>>

\* a day passes
Tick ==
    /\ now < Now0 + MaxTicks
    /\ now' = now + 1
    /\ UNCHANGED <<pc, no_cache, batch_size, store, cache, cutoff_date, loaded, world,
                   futures, collected, all_articles, articles_to_summarize, i, batch, j,
                   returned, requests, written, rendered, logged, exc, expect, got, arg, result>>

NextCache ==
    \/ CLoad
    \/ \E h \in CacheKeys, s \in {<<>>, <<"n">>} : CSet(h, s, <<"t">>)
    \/ \E h \in CacheKeys : CGet(h)
    \/ Tick

SpecCache == InitCache /\ [][NextCache]_vars

\* the entries of a well-formed store that are strictly newer than the cutoff
StrictlyNewer(st, cutoff) == SelectSeq(st.entries, LAMBDA e : e.fetch_date.t > cutoff)

\* C5: load_cache returns exactly the entries whose fetch_date is strictly
\* later than now - TTL, unchanged and for every entry at load time: older
\* entries and the entry exactly at the cutoff are dropped.
C5_LoadKeepsStrictlyNewer ==
    [][pc = "c_new" /\ pc' = "c_ready" =>
          /\ cache' = StrictlyNewer(store, now - 7)
          /\ \A k \in 1..Len(store.entries) :
               HasKey(cache', store.entries[k].key)
                   <=> store.entries[k].fetch_date.t > now - 7]_vars

\* a load met an older entry, one exactly at the cutoff and a newer one
C5_Witness ==
    /\ pc = "c_ready"
    /\ Len(loaded) = 1
    /\ \E a, b, c \in 1..Len(store.entries) :
         /\ store.entries[a].fetch_date.t < cutoff_date
         /\ store.entries[b].fetch_date.t = cutoff_date
         /\ store.entries[c].fetch_date.t > cutoff_date
         /\ loaded = <<store.entries[c]>>

\* C6: get_summary(h) returns the summary of the latest set_summary on h,
\* whatever was set on other hashes since, and None for a hash that was
\* neither set nor loaded.
C6_GetAfterSet ==
    pc = "c_ready" =>
        \A h \in CacheKeys :
            /\ ~get_summary(cache, h).raised
            /\ expect[h] # Unset => get_summary(cache, h).value = expect[h]
            /\ (expect[h] = Unset /\ ~HasKey(loaded, h)) => get_summary(cache, h).value = None
            /\ (expect[h] = Unset /\ HasKey(loaded, h)) =>
                   get_summary(cache, h).value = LoadedEntry(h).summary

\* a loaded entry was overwritten with an empty summary, another hash was
\* set afterwards, and the get of the first returned the empty summary
C6_Witness ==
    /\ pc = "c_ready"
    /\ HasKey(loaded, HA)
    /\ expect[HA] = <<>>
    /\ expect[HB] = <<"n">>
    /\ Len(cache) >= 2 /\ cache[Len(cache)].key = HB
    /\ got = <<HA, [raised |-> FALSE, value |-> <<>>]>>

----------------------------------------------------------------------------
(* Properties of the driver, continued *)

\* C11: when every source returned no article, the run ends after the fetch
\* phase with no summarization request, no call of the renderer and no error.
C11_NothingFetchedEndsEarly ==
    (pc \notin {"start", "fetch"} /\ \A f \in Feeds : futures[f].result = <<>>) =>
        /\ pc \in {"merged", "done"}
        /\ requests = <<>>
        /\ ~rendered.called
        /\ exc = "none"
        /\ pc = "done" => "No articles found from any feed" \in logged

\* both sources were collected with nothing and the run is over
C11_Witness ==
    /\ pc = "done"
    /\ Len(collected) = Cardinality(Feeds)
    /\ all_articles = <<>>
    /\ \A f \in Feeds : ~world[f].raises /\ futures[f].state = "done"
    /\ "No articles found from any feed" \in logged
    /\ ~rendered.called

\* C12: the per-article requests of a chunk start only after the batch
\* request of the chunk was attempted three times.
C12_BatchRetriedBeforeFallback ==
    \A q \in 1..Len(requests) :
        requests[q].kind = "single" =>
            Cardinality({p \in 1..q : requests[p].kind = "batch"
                                        /\ requests[p].chunk = requests[q].chunk})
                = stop_after_attempt

\* C13: an article gets the sentinel "[Summary failed]" only after three
\* individual requests were made for it.
C13_IndividualRetriedBeforeSentinel ==
    \A k \in 1..Len(all_articles) :
        all_articles[k].summary = FAILED =>
            Cardinality({q \in 1..Len(requests) : IsSingleFor(requests[q], k)}) = 3

----------------------------------------------------------------------------
(* The fingerprint on its own: two (title, content) pairs are hashed *)

HashTitles == {<<"a">>, <<"a", "b">>, <<"b">>}
HashContents == {<<"c">>, <<"b", "c">>, <<"b">>}
HashPairs == {<<t, c>> : t \in HashTitles, c \in HashContents}

IdleInit ==
    /\ no_cache = FALSE
    /\ batch_size = 1
    /\ now = Now0
    /\ store = MissingStore
    /\ world = Net(Unreachable, Unreachable)
    /\ cache = <<>>
    /\ cutoff_date = 0
    /\ loaded = <<>>
    /\ futures = [f \in Feeds |-> NoFuture]
    /\ collected = <<>>
    /\ all_articles = <<>>
    /\ articles_to_summarize = <<>>
    /\ i = 0
    /\ batch = <<>>
    /\ j = 0
    /\ returned = <<>>
    /\ requests = <<>>
    /\ written = 0
    /\ rendered = NotRendered
    /\ logged = {}
    /\ exc = "none"
    /\ expect = <<>>
    /\ got = <<>>

InitHash ==
    /\ pc = "h_new"
    /\ arg \in HashPairs \X HashPairs
    /\ result = <<>>
    /\ IdleInit

\* line 193 for both articles
HashBoth ==
    /\ pc = "h_new"
    /\ result' = <<fingerprint(arg[1][1], arg[1][2]), fingerprint(arg[2][1], arg[2][2])>>
    /\ pc' = "h_done"
    /\ UNCHANGED <<no_cache, batch_size, now, store, cache, cutoff_date, loaded, world,
                   futures, collected, all_articles, articles_to_summarize, i, batch, j,
                   returned, requests, written, rendered, logged, exc, expect, got, arg>>

NextHash == HashBoth

SpecHash == InitHash /\ [][NextHash]_vars

\* C14: two articles get the same content_hash exactly when they have the
\* same title and the same content.
C14_FingerprintFaithful ==
    pc = "h_done" => (result[1] = result[2] <=> arg[1] = arg[2])

----------------------------------------------------------------------------
(* Properties of the write-back *)

\* the article at position m of articles_to_summarize
Summarized(m) == all_articles[articles_to_summarize[m]]

CacheEntry(h) == cache[IndexOf(cache, h)]

\* the last position of articles_to_summarize whose article has the
\* content_hash of position m and a non-empty summary
LastSameHash(m) ==
    CHOOSE n \in 1..Len(articles_to_summarize) :
        /\ Summarized(n).content_hash = Summarized(m).content_hash
        /\ Truthy(Summarized(n).summary)
        /\ \A q \in (n + 1)..Len(articles_to_summarize) :
             ~(/\ Summarized(q).content_hash = Summarized(m).content_hash
               /\ Truthy(Summarized(q).summary))

\* C15 as stated: at the save step the cache entry under the content_hash of
\* every article summarized in this run holds that article's summary.
C15_CacheHoldsEverySummaryOriginal ==
    (pc = "save" /\ ~no_cache) =>
        \A m \in 1..Len(articles_to_summarize) :
            /\ HasKey(cache, Summarized(m).content_hash)
            /\ CacheEntry(Summarized(m).content_hash).summary = Summarized(m).summary

\* C15 amended: at the save step, for every article summarized in this run
\* with a non-empty summary, the cache has an entry under its content_hash,
\* holding the non-empty summary of the last summarized article with that
\* content_hash (the article's own summary when no later one shares the hash).
C15_CacheHoldsLastSummary ==
    (pc = "save" /\ ~no_cache) =>
        \A m \in 1..Len(articles_to_summarize) :
            Truthy(Summarized(m).summary) =>
                /\ HasKey(cache, Summarized(m).content_hash)
                /\ CacheEntry(Summarized(m).content_hash).summary
                       = Summarized(LastSameHash(m)).summary

\* two summarized articles share a content_hash and ended with different
\* summaries; the cache holds the later one
C15_Witness ==
    /\ pc = "save"
    /\ ~no_cache
    /\ \E m, n \in 1..Len(articles_to_summarize) :
         /\ m < n
         /\ Summarized(m).content_hash = Summarized(n).content_hash
         /\ Summarized(m).summary = ServiceSummary(Summarized(m))
         /\ Summarized(n).summary = FAILED
         /\ CacheEntry(Summarized(m).content_hash).summary = FAILED

----------------------------------------------------------------------------
(* parse_batch_summaries on its own: a response of numbered items is parsed *)

\* most items in one response
MaxItems == 2

\* the text an item carries on its marker line, possibly none
ItemBodies == {<<>>, <<"x">>, <<"x", " ", "1", ".", "5">>}

\* the lines that follow the marker line of an item
ItemContinuations ==
    {<<>>, <<<<"y">>>>, <<<<"y">>, <<"z">>>>, <<<<"2", "0", "2", "4", " ", "t">>>>}

ResponseItem(body, conts) == [body |-> body, conts |-> conts]

\* responses of n items, the k-th numbered k
ItemLists ==
    UNION {[1..n -> {ResponseItem(b, c) : b \in ItemBodies, c \in ItemContinuations}] :
              n \in 1..MaxItems}

RECURSIVE JoinLines(_)
JoinLines(lines) ==
    IF lines = <<>> THEN <<>>
    ELSE IF Len(lines) = 1 THEN lines[1]
    ELSE lines[1] \o <<"\n">> \o JoinLines(Tail(lines))

\* the lines of item number k: "k. body" or "k." and then its continuations
ItemLines(k, item) ==
    <<(IF item.body = <<>> THEN <<DigitChar(k), ".">>
       ELSE <<DigitChar(k), ".", " ">> \o item.body)>> \o item.conts

RECURSIVE ResponseLines(_, _)
ResponseLines(items, k) ==
    IF k > Len(items) THEN <<>>
    ELSE ItemLines(k, items[k]) \o ResponseLines(items, k + 1)

ResponseText(items) == JoinLines(ResponseLines(items, 1))

InitParse ==
    /\ pc = "p_new"
    /\ arg \in ItemLists
    /\ result = <<>>
    /\ IdleInit

\* line 293: parse_batch_summaries(summary_text, len(articles))
ParseResponse ==
    /\ pc = "p_new"
    /\ result' = parse_batch_summaries(ResponseText(arg), Len(arg))
    /\ pc' = "p_done"
    /\ UNCHANGED <<no_cache, batch_size, now, store, cache, cutoff_date, loaded, world,
                   futures, collected, all_articles, articles_to_summarize, i, batch, j,
                   returned, requests, written, rendered, logged, exc, expect, got, arg>>

NextParse == ParseResponse

SpecParse == InitParse /\ [][NextParse]_vars

\* the text of an item: its body and its continuation lines, single spaces
\* between them
RECURSIVE Spaced(_)
Spaced(lines) ==
    IF lines = <<>> THEN <<>>
    ELSE IF Len(lines) = 1 THEN lines[1]
    ELSE lines[1] \o <<" ">> \o Spaced(Tail(lines))

ItemText(item) ==
    Spaced((IF item.body = <<>> THEN <<>> ELSE <<item.body>>) \o item.conts)

ItemTexts(items) == [k \in 1..Len(items) |-> ItemText(items[k])]

StartsWithDigit(line) == line # <<>> /\ IsDigit(line[1])

NoDigitContinuation(items) ==
    \A k \in 1..Len(items) :
        \A m \in 1..Len(items[k].conts) : ~StartsWithDigit(items[k].conts[m])

AllBodies(items) == \A k \in 1..Len(items) : items[k].body # <<>>

\* C16: for a response of N items numbered 1..N, each with text after its
\* number and continuation lines that do not start with a digit, the parser
\* returns N strings, the k-th being the text of item k without its number,
\* continuation lines joined by single spaces.
C16_WellFormedParsed ==
    (pc = "p_done" /\ AllBodies(arg) /\ NoDigitContinuation(arg)) =>
        /\ Len(result) = Len(arg)
        /\ result = ItemTexts(arg)

\* two items, the first wrapped over three lines, the second with a dot in
\* its text
C16_Witness ==
    /\ pc = "p_done"
    /\ Len(arg) = 2
    /\ arg[1] = ResponseItem(<<"x">>, <<<<"y">>, <<"z">>>>)
    /\ arg[2] = ResponseItem(<<"x", " ", "1", ".", "5">>, <<>>)
    /\ result = << <<"x", " ", "y", " ", "z">>, <<"x", " ", "1", ".", "5">> >>

\* C19: a continuation line that starts with a digit without being a marker
\* stays in its item: every item is returned at its position with all its
\* lines.
C19_DigitLineIsContinuation ==
    (pc = "p_done" /\ AllBodies(arg) /\ ~NoDigitContinuation(arg)) =>
        result = ItemTexts(arg)

\* C20: an item whose marker line carries no text is returned at its
\* position with the text of its continuation lines.
C20_EmptyMarkerKeepsItem ==
    (/\ pc = "p_done"
     /\ NoDigitContinuation(arg)
     /\ \E k \in 1..Len(arg) : arg[k].body = <<>>
     /\ \A k \in 1..Len(arg) : arg[k].body # <<>> \/ arg[k].conts # <<>>) =>
        result = ItemTexts(arg)

----------------------------------------------------------------------------
(* articles that share a content_hash within one run *)

SameHash(k, m) == k # m /\ all_articles[k].content_hash = all_articles[m].content_hash

SummarizationOver == pc \in {"save", "save_write", "render", "done"}

\* C17 as stated: of the articles of one run that share a content_hash, at
\* most one is sent to the summarization service, and they are rendered with
\* the same summary.
C17_DuplicatesSentOnceOriginal ==
    \A k, m \in 1..Len(all_articles) :
        SameHash(k, m) =>
            /\ ~(InSomeRequest(k) /\ InSomeRequest(m))
            /\ rendered.called => rendered.articles[k].summary = rendered.articles[m].summary

\* C17 amended: the cache is consulted for every article before any
\* summarization, so articles that share a content_hash short-circuit only
\* against the cache loaded at startup: once summarization is over, either
\* none of them was sent and all carry the same cached summary, or every one
\* of them was sent to the summarization service.
C17_DuplicatesShareLookup ==
    \A k, m \in 1..Len(all_articles) :
        (SameHash(k, m) /\ SummarizationOver) =>
            /\ InSomeRequest(k) <=> InSomeRequest(m)
            /\ ~InSomeRequest(k) =>
                 /\ all_articles[k].summary = all_articles[m].summary
                 /\ ~no_cache
                 /\ all_articles[k].summary = LoadedEntry(all_articles[k].content_hash).summary

\* the same story came from both sources, was not cached, and both copies
\* were sent
C17_Witness ==
    /\ pc = "done"
    /\ rendered.called
    /\ \E k, m \in 1..Len(all_articles) :
         /\ SameHash(k, m)
         /\ all_articles[k].source # all_articles[m].source
         /\ InSomeRequest(k)
         /\ InSomeRequest(m)

----------------------------------------------------------------------------
(* lines 292-300 on their own: a numbered response is parsed and assigned *)

\* most articles in one numbered chunk
MaxNumbered == 3

\* injective sequences of length 1..n over S
RECURSIVE Arrangements(_, _)
Arrangements(S, n) ==
    IF n = 0 THEN {<<>>}
    ELSE LET shorter == Arrangements(S, n - 1) IN
         shorter \cup {Append(q, x) : q \in {r \in shorter : Len(r) = n - 1}, x \in S}

Injective(q) == \A a, b \in 1..Len(q) : a # b => q[a] # q[b]

\* chunks of articles with different titles, as fetch_feed_articles builds them
Chunks ==
    {entry_loop(q, "science_daily", Now0, <<>>) :
        q \in {r \in Arrangements({eA, eB, eC, eD}, MaxNumbered) : r # <<>> /\ Injective(r)}}

\* the numbers the response carries, in the order it carries them
NumberOrders(n) == {r \in Arrangements(1..n, n) : r # <<>> /\ Injective(r)}

\* the response text whose m-th item is numbered nums[m] and holds the
\* sentence for ARTICLE nums[m]
RECURSIVE ItemsText(_, _, _)
ItemsText(arts, nums, m) ==
    IF m > Len(nums) THEN <<>>
    ELSE (IF m = 1 THEN <<>> ELSE <<"\n">>)
             \o <<DigitChar(nums[m]), ".", " ">> \o ServiceSummary(arts[nums[m]])
             \o ItemsText(arts, nums, m + 1)

InitAssign ==
    /\ pc = "a_new"
    /\ arg \in {[arts |-> c, nums |-> q] : c \in Chunks, q \in NumberOrders(MaxNumbered)}
    /\ \A m \in 1..Len(arg.nums) : arg.nums[m] <= Len(arg.arts)
    /\ result = <<>>
    /\ IdleInit

\* lines 293-300 of summarize_articles_batch
AssignResponse ==
    /\ pc = "a_new"
    /\ result' = batch_assign(arg.arts, [k \in 1..Len(arg.arts) |-> k],
                              parse_batch_summaries(ItemsText(arg.arts, arg.nums, 1),
                                                    Len(arg.arts)))
    /\ pc' = "a_done"
    /\ UNCHANGED <<no_cache, batch_size, now, store, cache, cutoff_date, loaded, world,
                   futures, collected, all_articles, articles_to_summarize, i, batch, j,
                   returned, requests, written, rendered, logged, exc, expect, got, arg>>

NextAssign == AssignResponse

SpecAssign == InitAssign /\ [][NextAssign]_vars

\* C18 as stated: the article enumerated as ARTICLE k receives the item
\* numbered k when the response has one, and never the sentence written for
\* another article number.
C18_MatchedByNumberOriginal ==
    pc = "a_done" =>
        \A k \in 1..Len(arg.arts) :
            /\ (\E m \in 1..Len(arg.nums) : arg.nums[m] = k) =>
                   result[k].summary = ServiceSummary(arg.arts[k])
            /\ \A n \in 1..Len(arg.arts) :
                   n # k => result[k].summary # ServiceSummary(arg.arts[n])

\* C18 amended: summaries are matched by position, the numbers are dropped:
\* the article at position k of the chunk receives the k-th item of the
\* response in the order the response lists them, whatever number it carries,
\* and the articles beyond the number of items receive
\* "[Summary not available]".
C18_MatchedByPosition ==
    pc = "a_done" =>
        \A k \in 1..Len(arg.arts) :
            result[k].summary =
                IF k <= Len(arg.nums) THEN ServiceSummary(arg.arts[arg.nums[k]])
                ELSE NOT_AVAILABLE

\* items "1." and "3." for three articles: the second article has the
\* sentence of the third
C18_Witness ==
    /\ pc = "a_done"
    /\ Len(arg.arts) = 3
    /\ arg.nums = <<1, 3>>
    /\ result[1].summary = ServiceSummary(arg.arts[1])
    /\ result[2].summary = ServiceSummary(arg.arts[3])
    /\ result[3].summary = NOT_AVAILABLE

----------------------------------------------------------------------------
(* the cache and the fetch workers *)

AllJoined == \A f \in Feeds : futures[f].state = "done"

\* C21: after the cache object is built, the cache and its store change only
\* when every fetch task has finished, and a step of a fetch task (taken by a
\* worker, or finished) leaves the cache, the store and the loaded cache as
\* they are.
C21_CacheMutatedAfterJoin ==
    [][/\ (pc # "start" /\ (cache' # cache \/ store' # store)) =>
              /\ AllJoined
              /\ pc \in {"cache_results", "save", "save_write"}
       /\ (futures' # futures) => UNCHANGED <<cache, store, loaded>>]_vars

\* both tasks are finished and the cache holds a summary set in this run
C21_Witness ==
    /\ pc = "save"
    /\ AllJoined
    /\ Len(collected) = Cardinality(Feeds)
    /\ cache # loaded
    /\ requests # <<>>

----------------------------------------------------------------------------
(* reads and writes of the cache store in one run *)

LoadMessages == {"Loaded cached summaries", "Could not load cache"}

\* C22: the store is read only in the first step of a run with caching, when
\* no fetch task is submitted yet; it is written only by the one save, which
\* starts when every chunk is summarized and ends before the renderer is
\* called, and is never started again; with caching disabled the store and
\* the cache stay as they were and every fetched article of a run that
\* reaches the renderer was sent to summarization.
C22_StoreReadOnceWrittenOnce ==
    /\ [][/\ (loaded' # loaded \/ (logged' \ logged) \cap LoadMessages # {}) =>
                 /\ pc = "start"
                 /\ ~no_cache
                 /\ \A f \in Feeds : futures[f].state = "pending"
          /\ store' # store =>
                 /\ ~no_cache
                 /\ pc \in {"save", "save_write"}
                 /\ i >= Len(articles_to_summarize)
                 /\ \A m \in 1..Len(articles_to_summarize) :
                        InSomeRequest(articles_to_summarize[m])
                 /\ ~rendered.called
          /\ pc \in {"save_write", "render", "done", "error"} => pc' # "save"]_vars
    /\ [](no_cache =>
             /\ store = FullStore
             /\ cache = <<>>
             /\ loaded = <<>>
             /\ logged \cap LoadMessages = {}
             /\ pc \in {"render", "done"} =>
                    \A k \in 1..Len(all_articles) : InSomeRequest(k))

\* a run with caching read the store, summarized, wrote the store whole and
\* rendered
C22_Witness ==
    /\ pc = "done"
    /\ ~no_cache
    /\ rendered.called
    /\ requests # <<>>
    /\ logged \cap LoadMessages # {}
    /\ store = JsonStore(cache)
    /\ cache # loaded

----------------------------------------------------------------------------
(* a run that can be interrupted: KeyboardInterrupt is raised in the main
   thread, at whatever statement main is executing *)

Delivered(at) == [at |-> at, store |-> store]

\* lines 530-531: the interrupt propagates to the handler of main.  None of
\* the except clauses on the way (lines 142, 305, 354) catches it: they name
\* Exception, and KeyboardInterrupt is not one.
Interrupt ==
    /\ pc \in {"start", "merged", "lookup", "summarize", "individual", "cache_results"}
    /\ exc' = "KeyboardInterrupt"
    /\ arg' = Delivered(pc)
    /\ pc' = "interrupted"
    /\ logged' = logged \cup {"Process interrupted by user"}
    /\ UNCHANGED <<no_cache, batch_size, now, store, cache, cutoff_date, loaded, world,
                   futures, collected, all_articles, articles_to_summarize, i, batch, j,
                   returned, requests, written, rendered, expect, got, result>>

\* lines 474-483: raised inside the with block of the executor, whose exit
\* waits for the submitted tasks before the interrupt travels on
InterruptFetch ==
    /\ pc = "fetch"
    /\ exc' = "KeyboardInterrupt"
    /\ arg' = Delivered(pc)
    /\ pc' = "joining"
    /\ UNCHANGED <<no_cache, batch_size, now, store, cache, cutoff_date, loaded, world,
                   futures, collected, all_articles, articles_to_summarize, i, batch, j,
                   returned, requests, written, rendered, logged, expect, got, result>>

\* a submitted task is still taken by a worker while the executor shuts down
JoinStart(f) ==
    /\ pc = "joining"
    /\ futures[f].state = "pending"
    /\ futures' = [futures EXCEPT ![f].state = "running"]
    /\ UNCHANGED <<pc, no_cache, batch_size, now, store, cache, cutoff_date, loaded,
                   world, collected, all_articles, articles_to_summarize, i, batch, j,
                   returned, requests, written, rendered, logged, exc, expect, got, arg, result>>

\* every task is finished: the with block is left and the handler runs
Joined ==
    /\ pc = "joining"
    /\ \A f \in Feeds : futures[f].state = "done"
    /\ pc' = "interrupted"
    /\ logged' = logged \cup {"Process interrupted by user"}
    /\ UNCHANGED <<no_cache, batch_size, now, store, cache, cutoff_date, loaded, world,
                   futures, collected, all_articles, articles_to_summarize, i, batch, j,
                   returned, requests, written, rendered, exc, expect, got, arg, result>>

\* lines 161-165: raised inside save_cache, whose except clause names
\* Exception; the file stays as the interrupted write left it
InterruptSave ==
    /\ pc \in {"save", "save_write"}
    /\ exc' = "KeyboardInterrupt"
    /\ arg' = Delivered(pc)
    /\ pc' = "interrupted"
    /\ logged' = logged \cup {"Process interrupted by user"}
    /\ UNCHANGED <<no_cache, batch_size, now, store, cache, cutoff_date, loaded, world,
                   futures, collected, all_articles, articles_to_summarize, i, batch, j,
                   returned, requests, written, rendered, expect, got, result>>

\* whether the renderer enters the try block of lines 409-414
HasPublished == \E k \in 1..Len(all_articles) :
                    all_articles[k].published # None /\ all_articles[k].published # <<>>

\* lines 360-449 and 527: raised inside generate_enhanced_html.  Inside the
\* try block that formats a publication date, the bare except of line 413
\* catches the interrupt and the renderer goes on to write the page;
\* anywhere else the interrupt reaches the handler of main before the page
\* is written.
InterruptRender ==
    /\ pc = "render"
    /\ exc' = "KeyboardInterrupt"
    /\ arg' = Delivered(pc)
    /\ \E swallowed \in BOOLEAN :
         IF swallowed
         THEN /\ HasPublished
              /\ rendered' = [called |-> TRUE, articles |-> all_articles]
              /\ logged' = logged \cup {"Process completed successfully"}
              /\ pc' = "done"
         ELSE /\ rendered' = rendered
              /\ logged' = logged \cup {"Process interrupted by user"}
              /\ pc' = "interrupted"
    /\ UNCHANGED <<no_cache, batch_size, now, store, cache, cutoff_date, loaded, world,
                   futures, collected, all_articles, articles_to_summarize, i, batch, j,
                   returned, requests, written, expect, got, result>>

NextInterrupt ==
    \/ Next
    \/ Interrupt
    \/ InterruptFetch
    \/ \E f \in Feeds : JoinStart(f)
    \/ Joined
    \/ InterruptSave
    \/ InterruptRender

SpecInterrupt == Init /\ [][NextInterrupt]_vars

\* C23: once an interrupt has arrived, no request is made, no summary is
\* assigned, the cache and its store are not written and the renderer does
\* not run; the run ends in the interrupt handler; and when the interrupt
\* arrived before the save step the store is as it was and the renderer was
\* not called.
C23_InterruptStopsRun ==
    /\ [][exc = "KeyboardInterrupt" =>
              UNCHANGED <<requests, all_articles, cache, store, rendered>>]_vars
    /\ [](exc = "KeyboardInterrupt" =>
              /\ pc \in {"joining", "interrupted"}
              /\ "Process completed successfully" \notin logged
              /\ arg.at \notin {"save", "save_write", "render"} =>
                     (store = arg.store /\ ~rendered.called))

----------------------------------------------------------------------------
(* runs under every --batch-size the argument parser accepts (type=int) *)

\* smallest chunk size tried
MinBatch == -1

InitChunks ==
    /\ pc = "start"
    /\ no_cache \in BOOLEAN
    /\ batch_size \in MinBatch..MaxBatch
    /\ now = Now0
    /\ store \in (IF no_cache THEN {FullStore} ELSE StoreWorlds)
    /\ world \in NetWorlds
    /\ cache = <<>>
    /\ cutoff_date = 0
    /\ loaded = <<>>
    /\ futures = [f \in Feeds |-> NoFuture]
    /\ collected = <<>>
    /\ all_articles = <<>>
    /\ articles_to_summarize = <<>>
    /\ i = 0
    /\ batch = <<>>
    /\ j = 0
    /\ returned = <<>>
    /\ requests = <<>>
    /\ written = 0
    /\ rendered = NotRendered
    /\ logged = {}
    /\ exc = "none"
    /\ expect = <<>>
    /\ got = <<>>
    /\ arg = <<>>
    /\ result = <<>>

SpecChunks == InitChunks /\ [][Next]_vars

BatchRequests == SelectSeq(requests, LAMBDA r : r.kind = "batch")

\* the chunks submitted so far, one after the other
RECURSIVE Submitted(_)
Submitted(reqs) == IF reqs = <<>> THEN <<>> ELSE Head(reqs).arts \o Submitted(Tail(reqs))

\* C24: whatever the chunk size, the run does not fail on it; once
\* summarization is over the submitted chunks, in order, list the uncached
\* articles exactly once each in their order, each chunk has between 1 and
\* batch_size articles; and a chunk is submitted only when the chunk before
\* it was written to the cache.
C24_ChunksPartition ==
    /\ [](exc # "ValueError")
    /\ [](pc \in {"save", "save_write", "render", "done"} =>
             /\ Submitted(BatchRequests) = articles_to_summarize
             /\ \A q \in 1..Len(BatchRequests) :
                    /\ Len(BatchRequests[q].arts) >= 1
                    /\ Len(BatchRequests[q].arts) <= batch_size)
    /\ [][(Len(requests') > Len(requests) /\ requests'[Len(requests')].kind = "batch") =>
              /\ pc = "summarize"
              /\ Submitted(BatchRequests) = Slice(articles_to_summarize, 0, i)
              /\ i > 0 => returned = Slice(articles_to_summarize, i - batch_size, i)]_vars

----------------------------------------------------------------------------
(* fetch_feed_articles on its own: one source, any feed of a few entries *)

\* most entries in one feed
MaxEntries == 4

\* line 183: an entry without a link
eL == FeedEntry(<<"e">>, <<>>, <<"u">>, TRUE, <<"s">>)

RECURSIVE Tuples(_, _)
Tuples(S, n) ==
    IF n = 0 THEN {<<>>}
    ELSE LET shorter == Tuples(S, n - 1) IN
         shorter \cup {Append(q, x) : q \in {r \in shorter : Len(r) = n - 1}, x \in S}

FeedContents == Tuples({eA, eB, eD, eN, eL}, MaxEntries)

InitFetch ==
    /\ pc = "f_new"
    /\ arg \in {[feed_name |-> f, entries |-> q] : f \in Feeds, q \in FeedContents}
    /\ result = <<>>
    /\ IdleInit

\* line 476: the task of one source
FetchFeed ==
    /\ pc = "f_new"
    /\ result' = fetch_feed_articles(arg.feed_name, Served(arg.entries), now)
    /\ pc' = "f_done"
    /\ UNCHANGED <<no_cache, batch_size, now, store, cache, cutoff_date, loaded, world,
                   futures, collected, all_articles, articles_to_summarize, i, batch, j,
                   returned, requests, written, rendered, logged, exc, expect, got, arg>>

NextFetch == FetchFeed

SpecFetch == InitFetch /\ [][NextFetch]_vars

ItemLimit(f) == FEEDS_CONFIG[f].max_articles

\* the entries among the first min(L, m) that have a title and a link
Usable(entries, L) ==
    SelectSeq(SubSeq(entries, 1, IF L < Len(entries) THEN L ELSE Len(entries)),
              LAMBDA e : e.title # <<>> /\ e.link # <<>>)

\* C25: fetch_feed_articles returns one article for each entry, among the
\* first min(L, m) of the feed, that has a title and a link, in feed order
\* and no other: at most L articles, each carrying its entry's title, link
\* and date, the source's name and category, and as content the page text,
\* or the feed's summary text when the extraction failed.
C25_FetchKeepsUsableEntries ==
    pc = "f_done" =>
        LET kept == Usable(arg.entries, ItemLimit(arg.feed_name)) IN
        /\ ~result.raised
        /\ Len(result.value) = Len(kept)
        /\ Len(result.value) <= ItemLimit(arg.feed_name)
        /\ \A k \in 1..Len(kept) :
             /\ result.value[k].title = kept[k].title
             /\ result.value[k].link = kept[k].link
             /\ result.value[k].published = kept[k].published
             /\ result.value[k].source = arg.feed_name
             /\ result.value[k].category = FEEDS_CONFIG[arg.feed_name].category
             /\ result.value[k].content =
                    IF kept[k].page.ok THEN kept[k].page.text ELSE kept[k].summary

\* a feed of four entries under a limit of three: the first has no title, the
\* third no link, the fourth is beyond the limit, and the second, whose page
\* could not be extracted, comes back with the feed's summary as content
C25_Witness ==
    /\ pc = "f_done"
    /\ arg.feed_name = "variety_movies"
    /\ arg.entries = <<eN, eB, eL, eD>>
    /\ Len(result.value) = 1
    /\ result.value[1].title = <<"b">>
    /\ result.value[1].content = <<"y">>

----------------------------------------------------------------------------
(* what the run changes in an article after the fetch *)

Unsummarized(arts) == [k \in 1..Len(arts) |-> [arts[k] EXCEPT !.summary = None]]

\* C26: from the merge on, a step changes no field of an article but its
\* summary and adds or drops no article; apart from the summary the articles
\* are the ones the fetch tasks returned, content_hash included; and every
\* key the run adds to the cache is the fetch-time content_hash of a
\* summarized article.
C26_OnlySummaryChanges ==
    /\ [][pc \notin {"start", "fetch"} =>
              Unsummarized(all_articles') = Unsummarized(all_articles)]_vars
    /\ [](pc \notin {"start", "fetch", "error"} =>
              /\ Unsummarized(all_articles) = Merged(collected)
              /\ \A k \in 1..Len(all_articles) :
                     all_articles[k].content_hash =
                         fingerprint(all_articles[k].title, all_articles[k].content)
              /\ \A q \in 1..Len(cache) :
                     \/ HasKey(loaded, cache[q].key)
                     \/ \E k \in 1..Len(Merged(collected)) :
                            /\ Merged(collected)[k].content_hash = cache[q].key
                            /\ InSomeRequest(k))

\* a rendered run in which an article with a publication date was summarized
\* and written to the cache under its hash, and another was served from the
\* cache
C26_Witness ==
    /\ pc = "done"
    /\ rendered.called
    /\ \E k, m \in 1..Len(all_articles) :
         /\ InSomeRequest(k)
         /\ all_articles[k].published # None
         /\ all_articles[k].summary = ServiceSummary(all_articles[k])
         /\ HasKey(cache, all_articles[k].content_hash)
         /\ ~HasKey(loaded, all_articles[k].content_hash)
         /\ ~InSomeRequest(m)
         /\ all_articles[m].summary = Old

----------------------------------------------------------------------------
(* two runs of the program, the second on the store the first one left *)

\* days between the two runs: the last day within the expiry, and the first
\* day past it
RerunDelays == {CACHE_EXPIRY_DAYS - 1, CACHE_EXPIRY_DAYS}

InitRerun ==
    /\ pc = "start"
    /\ no_cache = FALSE
    /\ batch_size \in 1..MaxBatch
    /\ now = Now0
    /\ store = MissingStore
    /\ world \in {Net(Served(<<eA, eB>>), Served(<<>>)), Net(Served(<<eA>>), Served(<<eA>>))}
    /\ cache = <<>>
    /\ cutoff_date = 0
    /\ loaded = <<>>
    /\ futures = [f \in Feeds |-> NoFuture]
    /\ collected = <<>>
    /\ all_articles = <<>>
    /\ articles_to_summarize = <<>>
    /\ i = 0
    /\ batch = <<>>
    /\ j = 0
    /\ returned = <<>>
    /\ requests = <<>>
    /\ written = 0
    /\ rendered = NotRendered
    /\ logged = {}
    /\ exc = "none"
    /\ expect = <<>>
    /\ got = <<>>
    /\ arg = <<>>
    /\ result = <<>>

\* what the first run ended with: the summary of each article by
\* content_hash, the cache in memory, and whether save_cache wrote it whole
FirstRun ==
    [now |-> now,
     final |-> {<<all_articles[k].content_hash, all_articles[k].summary>> :
                    k \in 1..Len(all_articles)},
     cache |-> cache,
     saved |-> store = JsonStore(cache)]

\* the process has ended after rendering; the program is started again some
\* days later, the sources serving what they served
Restart ==
    /\ pc = "done"
    /\ rendered.called
    /\ arg = <<>>
    /\ arg' = FirstRun
    /\ \E d \in RerunDelays : now' = now + d
    /\ pc' = "start"
    /\ cache' = <<>>
    /\ cutoff_date' = 0
    /\ loaded' = <<>>
    /\ futures' = [f \in Feeds |-> NoFuture]
    /\ collected' = <<>>
    /\ all_articles' = <<>>
    /\ articles_to_summarize' = <<>>
    /\ i' = 0
    /\ batch' = <<>>
    /\ j' = 0
    /\ returned' = <<>>
    /\ requests' = <<>>
    /\ written' = 0
    /\ rendered' = NotRendered
    /\ logged' = {}
    /\ exc' = "none"
    /\ UNCHANGED <<no_cache, batch_size, store, world, expect, got, result>>

NextRerun == Next \/ Restart

SpecRerun == InitRerun /\ [][NextRerun]_vars

Sentinels == {NOT_AVAILABLE, FAILED}

FirstRunEntry(h) == arg.cache[IndexOf(arg.cache, h)]

\* the second run has loaded a store the first run wrote whole less than
\* CACHE_EXPIRY_DAYS days ago
SecondRunOnSavedCache ==
    /\ arg # <<>>
    /\ arg.saved
    /\ now < arg.now + CACHE_EXPIRY_DAYS
    /\ pc \notin {"start", "fetch", "merged", "lookup"}

====
